---- MODULE Spec2Model ----
(***************************************************************************)
(* thriftrw-go: the binary protocol's StreamReader                         *)
(* (protocol/binary/stream_reader.go) and the enum compiler exercised by   *)
(* compile/enum_test.go.                                                   *)
(*                                                                         *)
(* A byte is a number in 0..255, a stream a sequence of bytes.  The byte   *)
(* source handed to NewStreamReader is an io.Reader over `data`; `split`   *)
(* is the place where the source's first segment ends (io.MultiReader of   *)
(* two in-memory readers, a connection that received two packets): a Read  *)
(* never crosses it.  split = 0 is a single in-memory reader.              *)
(***************************************************************************)
EXTENDS Integers, Sequences, FiniteSets, TLC

VARIABLES
    data,      \* the bytes the source will deliver, in order
    split,     \* the source's segment boundary (0: none)
    pos,       \* number of bytes the StreamReader has taken from the source
    buffer,    \* StreamReader.buffer, the 8-byte scratch area
    nops,      \* operations performed on this reader so far
    op,        \* the last operation performed ("new" after construction)
    arg,       \* its wire.Type argument (Skip), else 0
    start,     \* pos before the last operation
    val,       \* the value the last operation returned
    err,       \* the error the last operation returned ("nil": none)
    more,      \* the bool ReadFieldBegin returned
    value,     \* the wire value whose encoding `data` was cut from, or NoValue
    enumSrc,   \* the ast.Enum handed to compileEnum
    enumOut,   \* what compileEnum returned, or NotCompiled
    stack      \* the calls and loops of a Skip in progress, innermost last

vars == <<data, split, pos, buffer, nops, op, arg, start, val, err, more,
          value, enumSrc, enumOut, stack>>

----------------------------------------------------------------------------
(* Bounds of the exploration.                                              *)

MaxOps == 2          \* operations per reader
MaxSplit == 2        \* the source's first segment is at most this long
MaxRaw == 2          \* length of the arbitrary byte strings
MaxFill == 2         \* payload bytes following a header in the framed streams
MaxDepth == 2        \* nesting depth of the encoded wire values
MaxElems == 2        \* elements per container, fields per struct
MaxBin == 1          \* payload length of the encoded binary leaves
MaxDrop == 2         \* bytes cut from the end of an encoding
MaxItems == 3        \* items per generated enum
MaxPieces == 2       \* headers strung together in a hostile stream

----------------------------------------------------------------------------
(* Arithmetic helpers.                                                     *)

Min(a, b) == IF a <= b THEN a ELSE b
Max(a, b) == IF a >= b THEN a ELSE b
Byte == 0..255
Zeros(n) == [i \in 1..n |-> 0]
Fill(b, n) == [i \in 1..n |-> b]
Take(s, n) == SubSeq(s, 1, Min(n, Len(s)))

\* int8(b): the byte as a signed 8-bit integer.
Int8(b) == IF b >= 128 THEN b - 256 ELSE b
\* int16(bigEndian.Uint16(bs))
Int16(bs) == Int8(bs[1]) * 256 + bs[2]
\* int32(bigEndian.Uint32(bs))
Int32(bs) == Int8(bs[1]) * 16777216 + bs[2] * 65536 + bs[3] * 256 + bs[4]

\* The model's integers are 32 bits wide, Go's int64 products are not: a
\* product that would leave the model's range is replaced by Huge, which like
\* the true product exceeds the length of every stream.
Huge == 1000000
Mul64(n, w) == IF n > Huge \div w THEN Huge ELSE n * w

----------------------------------------------------------------------------
(* wire.Type codes and the helpers of package binary the reader uses.      *)

TBool == 2
TI8 == 3
TDouble == 4
TI16 == 6
TI32 == 8
TI64 == 10
TBinary == 11
TStruct == 12
TMap == 13
TSet == 14
TList == 15

fixedWidth(t) ==
    CASE t = TBool -> 1
      [] t = TI8 -> 1
      [] t = TDouble -> 8
      [] t = TI16 -> 2
      [] t = TI32 -> 4
      [] t = TI64 -> 8
      [] OTHER -> 0 - 1

\* Binary payloads longer than this are stream-copied instead of read into a
\* slice allocated up front.
bytesAllocThreshold == 2

----------------------------------------------------------------------------
(* The byte source and the two ways the reader takes bytes from it.        *)

\* K applied to the value of v: `x := v` followed by the statements K(x).
With(v, K(_)) == CHOOSE out \in {K(x) : x \in {v}} : TRUE

\* sr.reader.Read(bs) with len(bs) = n at position p: the bytes delivered and
\* the source's error.  The source delivers what its current segment holds.
SourceRead(d, sp, p, n) ==
    With(Min(n, Min(Len(d) - p, IF sp > p THEN sp - p ELSE Len(d) - p)), LAMBDA k :
        [bytes |-> SubSeq(d, p + 1, p + k), err |-> IF k = 0 THEN "EOF" ELSE "nil"])

\* io.CopyN(dst, sr.reader, n): reads until n bytes were copied or the source
\* ended; the bytes copied and the error.
CopyN(d, p, n) ==
    With(Max(0, Min(n, Len(d) - p)), LAMBDA w :
        [bytes |-> SubSeq(d, p + 1, p + w), err |-> IF w < n THEN "EOF" ELSE "nil"])

\* read, passing on what the source returned: a short count goes unnoticed.
readUnchecked(d, sp, p, n) == SourceRead(d, sp, p, n)

\* StreamReader.read(bs): one Read; EOF and a short count are both unexpected.
read(d, sp, p, n) ==
    With(SourceRead(d, sp, p, n), LAMBDA r :
        [bytes |-> r.bytes,
         err |-> IF r.err = "EOF" \/ Len(r.bytes) < n THEN "ErrUnexpectedEOF" ELSE r.err])

\* StreamReader.discard(n): the position reached and the error.
discard(d, p, n) ==
    With(CopyN(d, p, n), LAMBDA c :
        [pos |-> p + Len(c.bytes),
         err |-> IF c.err = "EOF" THEN "ErrUnexpectedEOF" ELSE c.err])

\* bs := sr.buffer[0:n]; sr.read(bs): the bytes read land at the front of the
\* scratch buffer, the rest of it keeps what earlier reads left there.
Overwrite(buf, bytes) ==
    [i \in 1..Len(buf) |-> IF i <= Len(bytes) THEN bytes[i] ELSE buf[i]]

\* The state of a reader, and the result of an operation on it.
Reader(p, buf) == [pos |-> p, buf |-> buf]

ZeroVal == [bool |-> FALSE, int |-> 0, bytes |-> <<>>,
            type |-> 0, keyType |-> 0, id |-> 0, length |-> 0]

Result(p, buf, v, e) == [pos |-> p, buf |-> buf, val |-> v, err |-> e, more |-> FALSE]

\* The reads into the scratch buffer shared by ReadBool and ReadInt8..64.
readScratch(d, sp, sr, n) ==
    With(read(d, sp, sr.pos, n), LAMBDA r :
        [pos |-> sr.pos + Len(r.bytes), buf |-> Overwrite(sr.buf, r.bytes), err |-> r.err])

----------------------------------------------------------------------------
(* The read operations, each a function from the reader's state to the     *)
(* state it leaves and what it returns.                                    *)

\* ReadBool, taking every non-zero byte for true.
ReadBoolLenient(d, sp, sr) ==
    With(readScratch(d, sp, sr, 1), LAMBDA r :
        IF r.err # "nil" THEN Result(r.pos, r.buf, ZeroVal, r.err)
        ELSE Result(r.pos, r.buf, [ZeroVal EXCEPT !.bool = (r.buf[1] # 0)], "nil"))

ReadBool(d, sp, sr) ==
    With(readScratch(d, sp, sr, 1), LAMBDA r :
        IF r.err # "nil" THEN Result(r.pos, r.buf, ZeroVal, r.err)
        ELSE CASE r.buf[1] = 0 -> Result(r.pos, r.buf, ZeroVal, "nil")
               [] r.buf[1] = 1 -> Result(r.pos, r.buf, [ZeroVal EXCEPT !.bool = TRUE], "nil")
               [] OTHER -> Result(r.pos, r.buf, ZeroVal, "invalid bool value"))

ReadInt8(d, sp, sr) ==
    With(readScratch(d, sp, sr, 1), LAMBDA r :
        Result(r.pos, r.buf, [ZeroVal EXCEPT !.int = Int8(r.buf[1])], r.err))

ReadInt16(d, sp, sr) ==
    With(readScratch(d, sp, sr, 2), LAMBDA r :
        Result(r.pos, r.buf, [ZeroVal EXCEPT !.int = Int16(SubSeq(r.buf, 1, 2))], r.err))

ReadInt32(d, sp, sr) ==
    With(readScratch(d, sp, sr, 4), LAMBDA r :
        Result(r.pos, r.buf, [ZeroVal EXCEPT !.int = Int32(SubSeq(r.buf, 1, 4))], r.err))

\* The 64-bit result is kept as its eight bytes, most significant first.
ReadInt64(d, sp, sr) ==
    With(readScratch(d, sp, sr, 8), LAMBDA r :
        Result(r.pos, r.buf, [ZeroVal EXCEPT !.bytes = SubSeq(r.buf, 1, 8)], r.err))

\* math.Float64frombits(uint64(val)): the double is kept as its bit pattern.
ReadDouble(d, sp, sr) ==
    With(ReadInt64(d, sp, sr), LAMBDA r : Result(r.pos, r.buf, r.val, r.err))

\* The streaming branch of ReadBinary: io.CopyN into a fresh buffer.
ReadBinaryCopy(d, l, length) ==
    With(CopyN(d, l.pos, length), LAMBDA c :
        Result(l.pos + Len(c.bytes), l.buf, [ZeroVal EXCEPT !.bytes = c.bytes],
               IF c.err = "EOF" THEN "ErrUnexpectedEOF" ELSE c.err))

\* The branch of ReadBinary for short payloads: one read into make([]byte, length).
ReadBinaryInline(d, sp, l, length) ==
    With(read(d, sp, l.pos, length), LAMBDA r :
        Result(l.pos + Len(r.bytes), l.buf,
               [ZeroVal EXCEPT !.bytes = Overwrite(Zeros(length), r.bytes)], r.err))

ReadBinary(d, sp, sr) ==
    With(ReadInt32(d, sp, sr), LAMBDA l :
        IF l.err # "nil" THEN Result(l.pos, l.buf, ZeroVal, l.err)
        ELSE IF l.val.int < 0 THEN Result(l.pos, l.buf, ZeroVal, "negative length")
        ELSE IF l.val.int = 0 THEN Result(l.pos, l.buf, ZeroVal, "nil")
        ELSE IF l.val.int > bytesAllocThreshold THEN ReadBinaryCopy(d, l, l.val.int)
        ELSE ReadBinaryInline(d, sp, l, l.val.int))

ReadString(d, sp, sr) ==
    With(ReadBinary(d, sp, sr), LAMBDA r : Result(r.pos, r.buf, r.val, r.err))

ReadStructBegin(d, sp, sr) == Result(sr.pos, sr.buf, ZeroVal, "nil")

\* ReadStructEnd, not looking at the byte it read.
ReadStructEndUnchecked(d, sp, sr) ==
    With(ReadInt8(d, sp, sr), LAMBDA e : Result(e.pos, e.buf, ZeroVal, e.err))

ReadStructEnd(d, sp, sr) ==
    With(ReadInt8(d, sp, sr), LAMBDA e :
        IF e.err # "nil" THEN Result(e.pos, e.buf, ZeroVal, e.err)
        ELSE IF e.val.int # 0 THEN Result(e.pos, e.buf, ZeroVal, "invalid stop field")
        ELSE Result(e.pos, e.buf, ZeroVal, "nil"))

ReadFieldBegin(d, sp, sr) ==
    With(ReadInt8(d, sp, sr), LAMBDA ft :
        IF ft.err # "nil" THEN Result(ft.pos, ft.buf, ZeroVal, ft.err)
        ELSE With(ReadInt16(d, sp, Reader(ft.pos, ft.buf)), LAMBDA fid :
            IF fid.err # "nil" THEN Result(fid.pos, fid.buf, ZeroVal, fid.err)
            ELSE [Result(fid.pos, fid.buf,
                         [ZeroVal EXCEPT !.id = fid.val.int, !.type = ft.val.int], "nil")
                  EXCEPT !.more = TRUE]))

ReadFieldEnd(d, sp, sr) == Result(sr.pos, sr.buf, ZeroVal, "nil")

\* readTypeSizeHeader without the check `size < 0`.
readTypeSizeHeaderUnchecked(d, sp, sr) ==
    With(ReadInt8(d, sp, sr), LAMBDA et :
        IF et.err # "nil" THEN Result(et.pos, et.buf, ZeroVal, et.err)
        ELSE With(ReadInt32(d, sp, Reader(et.pos, et.buf)), LAMBDA size :
            IF size.err # "nil" THEN Result(size.pos, size.buf, ZeroVal, size.err)
            ELSE Result(size.pos, size.buf,
                        [ZeroVal EXCEPT !.type = et.val.int, !.length = size.val.int],
                        "nil")))

readTypeSizeHeader(d, sp, sr) ==
    With(ReadInt8(d, sp, sr), LAMBDA et :
        IF et.err # "nil" THEN Result(et.pos, et.buf, ZeroVal, et.err)
        ELSE With(ReadInt32(d, sp, Reader(et.pos, et.buf)), LAMBDA size :
            IF size.err # "nil" THEN Result(size.pos, size.buf, ZeroVal, size.err)
            ELSE IF size.val.int < 0
                 THEN Result(size.pos, size.buf, ZeroVal, "got negative length")
            ELSE Result(size.pos, size.buf,
                        [ZeroVal EXCEPT !.type = et.val.int, !.length = size.val.int],
                        "nil")))

ReadListBegin(d, sp, sr) ==
    With(readTypeSizeHeader(d, sp, sr), LAMBDA h :
        IF h.err # "nil" THEN Result(h.pos, h.buf, ZeroVal, h.err)
        ELSE Result(h.pos, h.buf,
                    [ZeroVal EXCEPT !.type = h.val.type, !.length = h.val.length], "nil"))

ReadListEnd(d, sp, sr) == Result(sr.pos, sr.buf, ZeroVal, "nil")

ReadSetBegin(d, sp, sr) ==
    With(readTypeSizeHeader(d, sp, sr), LAMBDA h :
        IF h.err # "nil" THEN Result(h.pos, h.buf, ZeroVal, h.err)
        ELSE Result(h.pos, h.buf,
                    [ZeroVal EXCEPT !.type = h.val.type, !.length = h.val.length], "nil"))

ReadSetEnd(d, sp, sr) == Result(sr.pos, sr.buf, ZeroVal, "nil")

ReadMapBegin(d, sp, sr) ==
    With(ReadInt8(d, sp, sr), LAMBDA kt :
        IF kt.err # "nil" THEN Result(kt.pos, kt.buf, ZeroVal, kt.err)
        ELSE With(ReadInt8(d, sp, Reader(kt.pos, kt.buf)), LAMBDA vt :
            IF vt.err # "nil" THEN Result(vt.pos, vt.buf, ZeroVal, vt.err)
            ELSE With(ReadInt32(d, sp, Reader(vt.pos, vt.buf)), LAMBDA size :
                IF size.err # "nil" THEN Result(size.pos, size.buf, ZeroVal, size.err)
                ELSE IF size.val.int < 0
                     THEN Result(size.pos, size.buf, ZeroVal, "got negative length")
                ELSE Result(size.pos, size.buf,
                            [ZeroVal EXCEPT !.keyType = kt.val.int, !.type = vt.val.int,
                                            !.length = size.val.int], "nil"))))

ReadMapEnd(d, sp, sr) == Result(sr.pos, sr.buf, ZeroVal, "nil")

----------------------------------------------------------------------------
(* Skip.                                                                   *)

RECURSIVE Skip(_, _, _, _)
RECURSIVE skipStructLoop(_, _, _, _)
RECURSIVE skipMapLoop(_, _, _, _, _, _, _)
RECURSIVE skipListLoop(_, _, _, _, _, _)

\* `fieldType, err = sr.ReadInt8()` at the end of skipStruct's loop body, and
\* the next round of the loop.
skipStructNext(d, sp, v) ==
    With(ReadInt8(d, sp, Reader(v.pos, v.buf)), LAMBDA ft :
        IF ft.err # "nil" THEN Result(ft.pos, ft.buf, ZeroVal, ft.err)
        ELSE skipStructLoop(d, sp, Reader(ft.pos, ft.buf), ft.val.int))

\* skipStruct's loop, leaving the field id on the stream.
skipStructLoopKeepId(d, sp, sr, fieldType) ==
    IF fieldType = 0 THEN Result(sr.pos, sr.buf, ZeroVal, "nil")
    ELSE With(Skip(d, sp, sr, fieldType), LAMBDA v :
        IF v.err # "nil" THEN Result(v.pos, v.buf, ZeroVal, v.err)
        ELSE skipStructNext(d, sp, v))

\* The body of skipStruct's loop `for fieldType != 0`, entered with the field
\* type just read.
skipStructLoop(d, sp, sr, fieldType) ==
    IF fieldType = 0 THEN Result(sr.pos, sr.buf, ZeroVal, "nil")
    ELSE With(discard(d, sr.pos, 2), LAMBDA id :
        IF id.err # "nil" THEN Result(id.pos, sr.buf, ZeroVal, id.err)
        ELSE With(Skip(d, sp, Reader(id.pos, sr.buf), fieldType), LAMBDA v :
            IF v.err # "nil" THEN Result(v.pos, v.buf, ZeroVal, v.err)
            ELSE skipStructNext(d, sp, v)))

skipStruct(d, sp, sr) ==
    With(ReadInt8(d, sp, sr), LAMBDA ft :
        IF ft.err # "nil" THEN Result(ft.pos, ft.buf, ZeroVal, ft.err)
        ELSE skipStructLoop(d, sp, Reader(ft.pos, ft.buf), ft.val.int))

\* skipMap's loop `for i := int32(0); i < size; i++`.
skipMapLoop(d, sp, sr, key, valueT, i, size) ==
    IF ~(i < size) THEN Result(sr.pos, sr.buf, ZeroVal, "nil")
    ELSE With(Skip(d, sp, sr, key), LAMBDA k :
        IF k.err # "nil" THEN Result(k.pos, k.buf, ZeroVal, k.err)
        ELSE With(Skip(d, sp, Reader(k.pos, k.buf), valueT), LAMBDA v :
            IF v.err # "nil" THEN Result(v.pos, v.buf, ZeroVal, v.err)
            ELSE skipMapLoop(d, sp, Reader(v.pos, v.buf), key, valueT, i + 1, size)))

\* The bulk path shared by skipMap and skipList: discard n bytes.
skipBulk(d, h, n) ==
    With(discard(d, h.pos, n), LAMBDA r : Result(r.pos, h.buf, ZeroVal, r.err))

\* skipMap, its bulk path counting the keys' width alone.
skipMapKeysOnly(d, sp, sr) ==
    With(ReadMapBegin(d, sp, sr), LAMBDA h :
        IF h.err # "nil" THEN Result(h.pos, h.buf, ZeroVal, h.err)
        ELSE IF fixedWidth(h.val.keyType) > 0 /\ fixedWidth(h.val.type) > 0
             THEN skipBulk(d, h, Mul64(h.val.length, fixedWidth(h.val.keyType)))
        ELSE skipMapLoop(d, sp, Reader(h.pos, h.buf), h.val.keyType, h.val.type,
                         0, h.val.length))

\* skipMap after its three header reads: keyRaw, valueRaw, size.
skipMapBody(d, sp, keyRaw, valueRaw, size) ==
    IF size.val.int < 0 THEN Result(size.pos, size.buf, ZeroVal, "got negative length")
    ELSE IF fixedWidth(keyRaw.val.int) > 0 /\ fixedWidth(valueRaw.val.int) > 0
         THEN skipBulk(d, size, Mul64(size.val.int, fixedWidth(keyRaw.val.int)
                                                     + fixedWidth(valueRaw.val.int)))
    ELSE skipMapLoop(d, sp, Reader(size.pos, size.buf),
                     keyRaw.val.int, valueRaw.val.int, 0, size.val.int)

skipMap(d, sp, sr) ==
    With(ReadInt8(d, sp, sr), LAMBDA keyRaw :
        IF keyRaw.err # "nil" THEN Result(keyRaw.pos, keyRaw.buf, ZeroVal, keyRaw.err)
        ELSE With(ReadInt8(d, sp, Reader(keyRaw.pos, keyRaw.buf)), LAMBDA valueRaw :
            IF valueRaw.err # "nil"
            THEN Result(valueRaw.pos, valueRaw.buf, ZeroVal, valueRaw.err)
            ELSE With(ReadInt32(d, sp, Reader(valueRaw.pos, valueRaw.buf)), LAMBDA size :
                IF size.err # "nil" THEN Result(size.pos, size.buf, ZeroVal, size.err)
                ELSE skipMapBody(d, sp, keyRaw, valueRaw, size))))

\* skipList's loop `for i := 0; i < size; i++`.
skipListLoop(d, sp, sr, elemType, i, size) ==
    IF ~(i < size) THEN Result(sr.pos, sr.buf, ZeroVal, "nil")
    ELSE With(Skip(d, sp, sr, elemType), LAMBDA e :
        IF e.err # "nil" THEN Result(e.pos, e.buf, ZeroVal, e.err)
        ELSE skipListLoop(d, sp, Reader(e.pos, e.buf), elemType, i + 1, size))

skipList(d, sp, sr) ==
    With(readTypeSizeHeader(d, sp, sr), LAMBDA h :
        IF h.err # "nil" THEN Result(h.pos, h.buf, ZeroVal, h.err)
        ELSE IF fixedWidth(h.val.type) > 0
             THEN skipBulk(d, h, Mul64(h.val.length, fixedWidth(h.val.type)))
        ELSE skipListLoop(d, sp, Reader(h.pos, h.buf), h.val.type, 0, h.val.length))

\* Skip's case wire.TBinary.
skipBinary(d, sp, sr) ==
    With(ReadInt32(d, sp, sr), LAMBDA l :
        IF l.err # "nil" THEN Result(l.pos, l.buf, ZeroVal, l.err)
        ELSE IF l.val.int < 0 THEN Result(l.pos, l.buf, ZeroVal, "got negative length")
        ELSE skipBulk(d, l, l.val.int))

\* Skip, taking a type it does not know for one that occupies no bytes.
SkipUnknownAsEmpty(d, sp, sr, t) ==
    IF fixedWidth(t) > 0 THEN skipBulk(d, sr, fixedWidth(t))
    ELSE CASE t = TBinary -> skipBinary(d, sp, sr)
           [] t = TStruct -> skipStruct(d, sp, sr)
           [] t = TMap -> skipMap(d, sp, sr)
           [] t = TSet -> skipList(d, sp, sr)
           [] t = TList -> skipList(d, sp, sr)
           [] OTHER -> Result(sr.pos, sr.buf, ZeroVal, "nil")

Skip(d, sp, sr, t) ==
    IF fixedWidth(t) > 0 THEN skipBulk(d, sr, fixedWidth(t))
    ELSE CASE t = TBinary -> skipBinary(d, sp, sr)
           [] t = TStruct -> skipStruct(d, sp, sr)
           [] t = TMap -> skipMap(d, sp, sr)
           [] t = TSet -> skipList(d, sp, sr)
           [] t = TList -> skipList(d, sp, sr)
           [] OTHER -> Result(sr.pos, sr.buf, ZeroVal, "unknown ttype")

----------------------------------------------------------------------------
(* Wire values and their binary encoding (the writer's side of the         *)
(* protocol): what a well-formed stream holds.                             *)

\* A wire value: its type, the bytes of a scalar or binary payload, and for
\* a container its key and element types and its items in order (the fields
\* of a struct, numbered from 1; the keys and values of a map, alternating).
WireValue(t, bytes, kt, et, items) ==
    [t |-> t, bytes |-> bytes, kt |-> kt, et |-> et, items |-> items]

NoValue == WireValue(0, <<>>, 0, 0, <<>>)

Scalar(t, bytes) == WireValue(t, bytes, 0, 0, <<>>)
ListOf(e, n) == WireValue(TList, <<>>, 0, e.t, [i \in 1..n |-> e])
SetOf(e, n) == WireValue(TSet, <<>>, 0, e.t, [i \in 1..n |-> e])
MapOf(k, e, n) ==
    WireValue(TMap, <<>>, k.t, e.t, [i \in 1..(2 * n) |-> IF i % 2 = 1 THEN k ELSE e])
StructOf(e, n) == WireValue(TStruct, <<>>, 0, 0, [i \in 1..n |-> e])

\* Big-endian encodings of a non-negative i16 and i32.
I16Bytes(n) == <<n \div 256, n % 256>>
I32Bytes(n) == <<n \div 16777216, (n \div 65536) % 256, (n \div 256) % 256, n % 256>>

RECURSIVE Encode(_)
RECURSIVE EncodeItems(_, _)
RECURSIVE EncodeFields(_, _)

\* The encodings of items[i..], one after the other.
EncodeItems(items, i) ==
    IF i > Len(items) THEN <<>>
    ELSE Encode(items[i]) \o EncodeItems(items, i + 1)

\* WriteFieldBegin (type, id), the field's value, for fields i.. of a struct.
EncodeFields(items, i) ==
    IF i > Len(items) THEN <<>>
    ELSE <<items[i].t>> \o I16Bytes(i) \o Encode(items[i]) \o EncodeFields(items, i + 1)

Encode(v) ==
    CASE fixedWidth(v.t) > 0 -> v.bytes
      [] v.t = TBinary -> I32Bytes(Len(v.bytes)) \o v.bytes
      [] v.t = TStruct -> EncodeFields(v.items, 1) \o <<0>>
      [] v.t = TList -> <<v.et>> \o I32Bytes(Len(v.items)) \o EncodeItems(v.items, 1)
      [] v.t = TSet -> <<v.et>> \o I32Bytes(Len(v.items)) \o EncodeItems(v.items, 1)
      [] v.t = TMap -> <<v.kt, v.et>> \o I32Bytes(Len(v.items) \div 2)
                          \o EncodeItems(v.items, 1)

----------------------------------------------------------------------------
(* The inputs explored.                                                    *)

WireTypes == {TBool, TI8, TDouble, TI16, TI32, TI64, TBinary, TStruct, TMap, TSet, TList}

\* One value of each scalar type, and binaries of every length up to MaxBin.
Leaves ==
    {Scalar(TBool, <<1>>), Scalar(TI8, <<12>>), Scalar(TI16, <<0, 11>>),
     Scalar(TI32, <<0, 0, 0, 2>>), Scalar(TI64, <<0, 0, 0, 0, 0, 0, 0, 13>>),
     Scalar(TDouble, <<64, 9, 33, 251, 84, 68, 45, 24>>)}
    \cup {Scalar(TBinary, Fill(15, n)) : n \in 0..MaxBin}

\* Map keys: one fixed-width, one not.
Keys == {Scalar(TI32, <<0, 0, 0, 7>>), Scalar(TBinary, <<8>>)}

Counts == {0, MaxElems}

RECURSIVE Vals(_)
\* The wire values nested at most k deep.
Vals(k) ==
    IF k = 0 THEN Leaves
    ELSE LET sub == Vals(k - 1)
         IN sub \cup {ListOf(e, n) : e \in sub, n \in Counts}
                \cup {SetOf(e, n) : e \in sub, n \in Counts}
                \cup {StructOf(e, n) : e \in sub, n \in Counts}
                \cup {MapOf(k2, e, n) : k2 \in Keys, e \in sub, n \in Counts}

\* The map of the specification's sixth scenario: MAP<I32,I32> of length 3.
MapI32x3 == MapOf(Scalar(TI32, <<0, 0, 0, 7>>), Scalar(TI32, <<0, 0, 0, 2>>), 3)

Values == Vals(MaxDepth) \cup {MapI32x3}

DropLast(s, n) == SubSeq(s, 1, Len(s) - n)

\* What follows, or is missing from, an encoded value on the stream.
Trailers == {<<>>, <<12, 0>>}
ValueStreams(v) ==
    {Encode(v) \o tr : tr \in Trailers}
    \cup {DropLast(Encode(v), n) : n \in 1..Min(MaxDrop, Len(Encode(v)))}

\* Arbitrary bytes: every single byte, and the short strings over Alphabet.
Alphabet == {0, 1, 255}
RECURSIVE Strings(_)
Strings(n) ==
    IF n = 0 THEN {<<>>}
    ELSE LET shorter == Strings(n - 1)
         IN shorter \cup {<<b>> \o s : b \in Alphabet, s \in {x \in shorter : Len(x) = n - 1}}

\* Headers as ReadBinary and the container reads expect them: type bytes, an
\* i32 length (negative, zero, up to and beyond the allocation threshold,
\* far beyond the stream), and some payload.
Heads == {<<>>, <<TI32>>, <<TBinary>>, <<TBinary, TI32>>}
Lengths == {<<255, 255, 255, 255>>, <<128, 0, 0, 0>>, <<0, 0, 0, 0>>,
            <<0, 0, 0, bytesAllocThreshold>>, <<0, 0, 0, bytesAllocThreshold + 1>>,
            <<1, 0, 0, 0>>}
Framed == {h \o l \o Fill(1, m) : h \in Heads, l \in Lengths, m \in 0..MaxFill}

RawStreams == {<<b>> : b \in Byte} \cup Strings(MaxRaw) \cup Framed

\* Where the source's first segment may end.
Splits(d) == {0} \cup {s \in 1..MaxSplit : s < Len(d)}

----------------------------------------------------------------------------
(* The reader as a state machine.                                          *)

NoEnum == [name |-> "", items |-> <<>>]
NotCompiled == [done |-> FALSE, ok |-> FALSE, name |-> "", items |-> <<>>,
                failed |-> "", typeCode |-> 0]

InitReader ==
    /\ pos = 0
    /\ buffer = Zeros(8)
    /\ nops = 0
    /\ op = "new" /\ arg = 0 /\ start = 0
    /\ val = ZeroVal /\ err = "nil" /\ more = FALSE
    /\ stack = <<>>

\* NewStreamReader over a source of arbitrary bytes.
Init ==
    /\ data \in RawStreams
    /\ split \in Splits(data)
    /\ value = NoValue
    /\ enumSrc = NoEnum /\ enumOut = NotCompiled
    /\ InitReader

\* The caller performs an operation whose outcome is r.  An error ends the
\* use of the reader: the caller gives the stream up.
Apply(name, t, outcome) ==
    /\ nops < MaxOps
    /\ err = "nil"
    /\ op' = name /\ arg' = t /\ start' = pos
    /\ \E r \in {outcome} :
          /\ pos' = r.pos /\ buffer' = r.buf
          /\ val' = r.val /\ err' = r.err /\ more' = r.more
    /\ nops' = nops + 1
    /\ UNCHANGED <<data, split, value, enumSrc, enumOut, stack>>

Self == Reader(pos, buffer)

CallReadBool == Apply("ReadBool", 0, ReadBool(data, split, Self))
CallReadInt8 == Apply("ReadInt8", 0, ReadInt8(data, split, Self))
CallReadInt16 == Apply("ReadInt16", 0, ReadInt16(data, split, Self))
CallReadInt32 == Apply("ReadInt32", 0, ReadInt32(data, split, Self))
CallReadInt64 == Apply("ReadInt64", 0, ReadInt64(data, split, Self))
CallReadString == Apply("ReadString", 0, ReadString(data, split, Self))
CallReadDouble == Apply("ReadDouble", 0, ReadDouble(data, split, Self))
CallReadBinary == Apply("ReadBinary", 0, ReadBinary(data, split, Self))
CallReadStructBegin == Apply("ReadStructBegin", 0, ReadStructBegin(data, split, Self))
CallReadStructEnd == Apply("ReadStructEnd", 0, ReadStructEnd(data, split, Self))
CallReadFieldBegin == Apply("ReadFieldBegin", 0, ReadFieldBegin(data, split, Self))
CallReadFieldEnd == Apply("ReadFieldEnd", 0, ReadFieldEnd(data, split, Self))
CallReadListBegin == Apply("ReadListBegin", 0, ReadListBegin(data, split, Self))
CallReadListEnd == Apply("ReadListEnd", 0, ReadListEnd(data, split, Self))
CallReadSetBegin == Apply("ReadSetBegin", 0, ReadSetBegin(data, split, Self))
CallReadSetEnd == Apply("ReadSetEnd", 0, ReadSetEnd(data, split, Self))
CallReadMapBegin == Apply("ReadMapBegin", 0, ReadMapBegin(data, split, Self))
CallReadMapEnd == Apply("ReadMapEnd", 0, ReadMapEnd(data, split, Self))
CallSkip(t) == Apply("Skip", t, Skip(data, split, Self, t))

\* The types Skip is called with: every wire type and one that is none.
SkipTypes == WireTypes \cup {0}

Next ==
    \/ CallReadBool
    \/ CallReadInt8
    \/ CallReadInt16
    \/ CallReadInt32
    \/ CallReadInt64
    \/ CallReadString
    \/ CallReadDouble
    \/ CallReadBinary
    \/ CallReadStructBegin
    \/ CallReadStructEnd
    \/ CallReadFieldBegin
    \/ CallReadFieldEnd
    \/ CallReadListBegin
    \/ CallReadListEnd
    \/ CallReadSetBegin
    \/ CallReadSetEnd
    \/ CallReadMapBegin
    \/ CallReadMapEnd
    \/ \E t \in SkipTypes : CallSkip(t)

Spec == Init /\ [][Next]_vars

\* Skip as a function of the stream: a reader over the encoding of a wire
\* value, whole, followed by other bytes, or cut short, skips the value's type.
SkipInit ==
    /\ value \in Values
    /\ data \in ValueStreams(value)
    /\ split \in {0} \cup {s \in {MaxSplit} : s < Len(data)}
    /\ enumSrc = NoEnum /\ enumOut = NotCompiled
    /\ InitReader

SkipNext == nops = 0 /\ CallSkip(value.t)

SkipSpec == SkipInit /\ [][SkipNext]_vars

----------------------------------------------------------------------------
(* The enum compiler (package compile), as enum_test.go exercises it.      *)

\* An ast.EnumItem: a name and, when the source gives one, a value.
Item(n) == [name |-> n, explicit |-> FALSE, value |-> 0]
ItemV(n, v) == [name |-> n, explicit |-> TRUE, value |-> v]
Enum(n, items) == [name |-> n, items |-> items]

\* compile.EnumItem{Name, Value}
EnumItem(n, v) == [name |-> n, value |-> v]

UsedNames(items) == {items[i].name : i \in 1..Len(items)}

RECURSIVE compileItems(_, _, _, _)
\* compileItems, defaulting an item's value to its index.
compileItemsByIndex(src, i, prev, out) ==
    IF i > Len(src.items)
    THEN [done |-> TRUE, ok |-> TRUE, name |-> src.name, items |-> out,
          failed |-> "", typeCode |-> TI32]
    ELSE LET it == src.items[i]
             v == IF it.explicit THEN it.value ELSE i - 1
         IN IF it.name \in UsedNames(out)
            THEN [done |-> TRUE, ok |-> FALSE, name |-> src.name, items |-> <<>>,
                  failed |-> it.name, typeCode |-> 0]
            ELSE compileItems(src, i + 1, v, Append(out, EnumItem(it.name, v)))

\* compileItems, taking a repeated value for a repeated name.
compileItemsUniqueValues(src, i, prev, out) ==
    IF i > Len(src.items)
    THEN [done |-> TRUE, ok |-> TRUE, name |-> src.name, items |-> out,
          failed |-> "", typeCode |-> TI32]
    ELSE LET it == src.items[i]
             v == IF it.explicit THEN it.value ELSE prev + 1
         IN IF v \in {out[k].value : k \in 1..Len(out)}
            THEN [done |-> TRUE, ok |-> FALSE, name |-> src.name, items |-> <<>>,
                  failed |-> it.name, typeCode |-> 0]
            ELSE compileItems(src, i + 1, v, Append(out, EnumItem(it.name, v)))

\* The loop over the source's items: `prev` is the value of the item before
\* (-1 before the first), `out` the items compiled so far.
compileItems(src, i, prev, out) ==
    IF i > Len(src.items)
    THEN [done |-> TRUE, ok |-> TRUE, name |-> src.name, items |-> out,
          failed |-> "", typeCode |-> TI32]
    ELSE LET it == src.items[i]
             v == IF it.explicit THEN it.value ELSE prev + 1
         IN IF it.name \in UsedNames(out)
            THEN [done |-> TRUE, ok |-> FALSE, name |-> src.name, items |-> <<>>,
                  failed |-> it.name, typeCode |-> 0]
            ELSE compileItems(src, i + 1, v, Append(out, EnumItem(it.name, v)))

compileEnum(src) == compileItems(src, 1, 0 - 1, <<>>)

\* The enums of enum_test.go.
RoleSrc == Enum("Role", <<Item("Disabled"), Item("User"), Item("Moderator"), Item("Admin")>>)
CommentStatusSrc ==
    Enum("CommentStatus", <<ItemV("Visible", 12345), ItemV("Hidden", 54321)>>)
MixedSrc == Enum("foo", <<Item("A"), Item("B"), ItemV("C", 10), Item("D"), Item("E")>>)
SameValuesSrc == Enum("bar", <<Item("A"), ItemV("B", 0), Item("C"), ItemV("D", 0), Item("E")>>)
DuplicateSrc == Enum("Foo", <<Item("A"), Item("B"), Item("C"), Item("A"), Item("D")>>)
\* The specification's example of value defaulting.
SpecExampleSrc == Enum("X", <<Item("A"), ItemV("B", 5), Item("C"), Item("D")>>)
TestEnums == {RoleSrc, CommentStatusSrc, MixedSrc, SameValuesSrc, DuplicateSrc,
              SpecExampleSrc}

\* Generated enums: up to MaxItems items, each with or without a value.
ItemNames == {"A", "B", "C"}
ItemValues == {0, 5}
Items == {Item(n) : n \in ItemNames} \cup {ItemV(n, v) : n \in ItemNames, v \in ItemValues}
RECURSIVE ItemLists(_)
ItemLists(n) ==
    IF n = 0 THEN {<<>>}
    ELSE LET shorter == ItemLists(n - 1)
         IN shorter \cup {Append(l, it) : l \in {x \in shorter : Len(x) = n - 1}, it \in Items}

EnumInit ==
    /\ enumSrc \in TestEnums \cup {Enum("X", l) : l \in ItemLists(MaxItems)}
    /\ enumOut = NotCompiled
    /\ data = <<>> /\ split = 0 /\ value = NoValue
    /\ InitReader

CompileEnum ==
    /\ ~enumOut.done
    /\ enumOut' = compileEnum(enumSrc)
    /\ UNCHANGED <<data, split, pos, buffer, nops, op, arg, start, val, err, more,
                   value, enumSrc, stack>>

EnumNext == CompileEnum

EnumSpec == EnumInit /\ [][EnumNext]_vars

----------------------------------------------------------------------------
(* Skip, statement by statement: the calls of Skip that have not returned  *)
(* and the loops of skipStruct, skipList and skipMap they are in.          *)

\* A frame of the stack: a call Skip(t) about to start (kind "skip"), or a
\* loop of skipStruct (t the field type last read), of skipList (t the
\* element type) or of skipMap (kt, t the key and value types).  i and size
\* are the loop's counter and bound, pc the statement the loop is at, `at`
\* the position of the stream when the loop's current round began.
Frame(kind, t, kt, i, size, pc, at) ==
    [kind |-> kind, t |-> t, kt |-> kt, i |-> i, size |-> size, pc |-> pc, at |-> at]

CallFrame(t) == Frame("skip", t, 0, 0, 0, "call", 0)

Top == stack[Len(stack)]
Callers == SubSeq(stack, 1, Len(stack) - 1)

\* What a step leaves: the reader's state, the error, the stack.
Step(p, buf, e, stk) == [pos |-> p, buf |-> buf, err |-> e, stack |-> stk]

\* `return err` after the read or skip r: an error goes up through every
\* caller, which the frames are left to show; without one the callee's frame
\* is gone and its callers `rest` go on.
Returns(r, stk, rest) ==
    Step(r.pos, r.buf, r.err, IF r.err = "nil" THEN rest ELSE stk)

\* skipStruct up to its loop: the first field type is read.
enterStruct(d, sp, sr, stk, rest) ==
    With(ReadInt8(d, sp, sr), LAMBDA ft :
        IF ft.err # "nil" THEN Returns(ft, stk, rest)
        ELSE Step(ft.pos, ft.buf, "nil",
                  Append(rest, Frame("struct", ft.val.int, 0, 0, 0, "test", sr.pos))))

\* skipList up to its loop, or through its bulk path.
enterList(d, sp, sr, stk, rest) ==
    With(readTypeSizeHeader(d, sp, sr), LAMBDA h :
        IF h.err # "nil" THEN Returns(h, stk, rest)
        ELSE IF fixedWidth(h.val.type) > 0
             THEN Returns(skipBulk(d, h, Mul64(h.val.length, fixedWidth(h.val.type))),
                          stk, rest)
        ELSE Step(h.pos, h.buf, "nil",
                  Append(rest, Frame("list", h.val.type, 0, 0, h.val.length, "test", h.pos))))

\* skipMap up to its loop, or through its bulk path.
enterMap(d, sp, sr, stk, rest) ==
    With(ReadMapBegin(d, sp, sr), LAMBDA h :
        IF h.err # "nil" THEN Returns(h, stk, rest)
        ELSE IF fixedWidth(h.val.keyType) > 0 /\ fixedWidth(h.val.type) > 0
             THEN Returns(skipBulk(d, h, Mul64(h.val.length, fixedWidth(h.val.keyType)
                                                             + fixedWidth(h.val.type))),
                          stk, rest)
        ELSE Step(h.pos, h.buf, "nil",
                  Append(rest, Frame("map", h.val.type, h.val.keyType, 0, h.val.length,
                                     "key", h.pos))))

\* The call Skip(t), up to the loop it enters or to its return.
skipCall(d, sp, sr, stk, rest, t) ==
    CASE t = TStruct -> enterStruct(d, sp, sr, stk, rest)
      [] t = TMap -> enterMap(d, sp, sr, stk, rest)
      [] t \in {TSet, TList} -> enterList(d, sp, sr, stk, rest)
      [] OTHER -> Returns(Skip(d, sp, sr, t), stk, rest)

\* skipStruct's loop body up to its call of Skip: the field id is discarded.
structField(d, sr, stk, rest, f) ==
    With(discard(d, sr.pos, 2), LAMBDA id :
        IF id.err # "nil" THEN Step(id.pos, sr.buf, id.err, stk)
        ELSE Step(id.pos, sr.buf, "nil",
                  rest \o <<[f EXCEPT !.pc = "next", !.at = sr.pos], CallFrame(f.t)>>))

\* The end of skipStruct's loop body: the next field type is read.
structNext(d, sp, sr, stk, rest, f) ==
    With(ReadInt8(d, sp, sr), LAMBDA ft :
        IF ft.err # "nil" THEN Returns(ft, stk, rest)
        ELSE Step(ft.pos, ft.buf, "nil",
                  Append(rest, [f EXCEPT !.t = ft.val.int, !.pc = "test"])))

\* A round of skipList's loop: Skip(elemType) is called.
listRound(sr, rest, f) ==
    Step(sr.pos, sr.buf, "nil",
         rest \o <<[f EXCEPT !.i = f.i + 1, !.at = sr.pos], CallFrame(f.t)>>)

\* A round of skipMap's loop: Skip(key) is called, and after it Skip(value).
mapKey(sr, rest, f) ==
    Step(sr.pos, sr.buf, "nil",
         rest \o <<[f EXCEPT !.pc = "value", !.at = sr.pos], CallFrame(f.kt)>>)
mapValue(sr, rest, f) ==
    Step(sr.pos, sr.buf, "nil",
         rest \o <<[f EXCEPT !.pc = "key", !.i = f.i + 1], CallFrame(f.t)>>)

\* A loop's condition fails: `return nil`.
loopEnd(sr, rest) == Step(sr.pos, sr.buf, "nil", rest)

\* Hostile streams: headers of lists, sets and maps announcing MaxElems or
\* 2^31 - 1 elements, field headers, stop bytes and empty binaries, strung
\* together.
MaxInt32Bytes == <<127, 255, 255, 255>>
HostileSizes == {I32Bytes(MaxElems), MaxInt32Bytes}
Pieces ==
    {<<e>> \o s : e \in {TBinary, TList, TStruct}, s \in HostileSizes}
    \cup {<<TBinary, TStruct>> \o s : s \in HostileSizes}
    \cup {<<t, 0, 1>> : t \in {TList, TMap, TBinary}}
    \cup {<<0>>, <<0, 0, 0, 0>>, <<1>> \o MaxInt32Bytes}
RECURSIVE Hostile(_)
Hostile(n) ==
    IF n = 0 THEN {<<>>}
    ELSE LET shorter == Hostile(n - 1)
         IN shorter \cup {p \o s : p \in Pieces, s \in shorter}

\* The types Skip is called with on a hostile stream.
HostileTypes == {TI32, TBinary, TStruct, TMap, TList, 0}

\* Skip(arg) has been called on a new reader.
StepInitReader ==
    /\ pos = 0 /\ buffer = Zeros(8) /\ nops = 0
    /\ op = "Skip" /\ start = 0
    /\ val = ZeroVal /\ err = "nil" /\ more = FALSE
    /\ stack = <<CallFrame(arg)>>
    /\ enumSrc = NoEnum /\ enumOut = NotCompiled

\* The stream is hostile, or the encoding of a wire value, whole, followed
\* by other bytes or cut short.
StepInit ==
    /\ \/ /\ value = NoValue
          /\ data \in Hostile(MaxPieces)
          /\ arg \in HostileTypes
       \/ /\ value \in Vals(MaxDepth - 1)
          /\ data \in ValueStreams(value)
          /\ arg = value.t
    /\ split \in {0} \cup {s \in {MaxSplit} : s < Len(data)}
    /\ StepInitReader

StepTo(r) ==
    /\ pos' = r.pos /\ buffer' = r.buf /\ err' = r.err /\ stack' = r.stack
    /\ UNCHANGED <<data, split, nops, op, arg, start, val, more, value, enumSrc, enumOut>>

\* Skip has not returned: no error yet, and calls or loops left.
Running == err = "nil" /\ stack # <<>>
In(kind, pc) == Running /\ Top.kind = kind /\ Top.pc = pc

SkipCall ==
    /\ In("skip", "call")
    /\ \E r \in {skipCall(data, split, Self, stack, Callers, Top.t)} : StepTo(r)
StructField ==
    /\ In("struct", "test") /\ Top.t # 0
    /\ \E r \in {structField(data, Self, stack, Callers, Top)} : StepTo(r)
StructNext ==
    /\ In("struct", "next")
    /\ \E r \in {structNext(data, split, Self, stack, Callers, Top)} : StepTo(r)
StructEnd ==
    /\ In("struct", "test") /\ Top.t = 0
    /\ StepTo(loopEnd(Self, Callers))
ListRound ==
    /\ In("list", "test") /\ Top.i < Top.size
    /\ StepTo(listRound(Self, Callers, Top))
ListEnd ==
    /\ In("list", "test") /\ ~(Top.i < Top.size)
    /\ StepTo(loopEnd(Self, Callers))
MapKey ==
    /\ In("map", "key") /\ Top.i < Top.size
    /\ StepTo(mapKey(Self, Callers, Top))
MapValue ==
    /\ In("map", "value")
    /\ StepTo(mapValue(Self, Callers, Top))
MapEnd ==
    /\ In("map", "key") /\ ~(Top.i < Top.size)
    /\ StepTo(loopEnd(Self, Callers))

StepNext ==
    \/ SkipCall
    \/ StructField
    \/ StructNext
    \/ StructEnd
    \/ ListRound
    \/ ListEnd
    \/ MapKey
    \/ MapValue
    \/ MapEnd

\* Skip runs on until it returns.
StepSpec == StepInit /\ [][StepNext]_vars /\ WF_vars(StepNext)

----------------------------------------------------------------------------
(* What the stream held where the last operation began.                    *)

\* The byte i places after the operation's starting position (0: the next).
At(i) == data[start + i + 1]
\* n bytes are on the stream from i places after the start.
Present(i, n) == start + i + n <= Len(data)
\* They are, and the source hands them over in one Read: its segment
\* boundary does not fall inside them.
Delivered(i, n) == Present(i, n) /\ ~(start + i < split /\ split < start + i + n)
\* The i32 found i places after the start.
LengthAt(i) == Int32(SubSeq(data, start + i + 1, start + i + 4))

----------------------------------------------------------------------------
(* C1: ReadFieldBegin on a real field (a non-zero type code followed by    *)
(* its id) returns the field's header, more = true and no error; on the    *)
(* stop byte (type code 0) it returns more = false and no error, whatever  *)
(* follows the stop byte, the end of the stream included.                  *)

FieldBeginContract ==
    (op = "ReadFieldBegin" /\ Present(0, 1)) =>
        /\ (At(0) # 0 /\ Delivered(1, 2)) =>
              /\ err = "nil" /\ more
              /\ val.type = Int8(At(0)) /\ val.id = Int16(<<At(1), At(2)>>)
        /\ At(0) = 0 => (err = "nil" /\ ~more)

----------------------------------------------------------------------------
(* C5: ReadBool consumes exactly one byte; it returns false for 0x00,      *)
(* true for 0x01 and an invalid-bool error for every other byte.           *)

BoolStrictness ==
    (op = "ReadBool" /\ Present(0, 1)) =>
        /\ pos = start + 1
        /\ At(0) = 0 => (err = "nil" /\ val.bool = FALSE)
        /\ At(0) = 1 => (err = "nil" /\ val.bool = TRUE)
        /\ At(0) \in 2..255 => (err = "invalid bool value" /\ val.bool = FALSE)

BoolStrictnessWitness ==
    op = "ReadBool" /\ Present(0, 1) /\ At(0) = 255 /\ err = "invalid bool value"

----------------------------------------------------------------------------
(* C6: ReadStructEnd reads exactly one byte, succeeds iff it is 0x00 and   *)
(* fails with an invalid-stop error for every other byte; ReadStructBegin  *)
(* consumes nothing and never fails.                                       *)

StopFieldStrictness ==
    /\ (op = "ReadStructEnd" /\ Present(0, 1)) =>
          /\ pos = start + 1
          /\ (err = "nil") <=> (At(0) = 0)
          /\ At(0) # 0 => err = "invalid stop field"
    /\ op = "ReadStructBegin" => (pos = start /\ err = "nil")

StopFieldStrictnessWitness ==
    /\ op = "ReadStructEnd" /\ Present(0, 1) /\ At(0) # 0
    /\ err = "invalid stop field" /\ pos = start + 1
    /\ start > 0

----------------------------------------------------------------------------
(* C3: when the i32 length of a binary value or of a list, set or map      *)
(* header is negative, the operation that reads it (ReadBinary,            *)
(* ReadString, ReadListBegin, ReadSetBegin, ReadMapBegin, Skip of BINARY,  *)
(* LIST, SET and MAP) returns an invalid-length error and reads nothing    *)
(* after the length field.  The operation reads the length when the type   *)
(* bytes before it are on the stream and the length field reaches it.      *)

InvalidLength == {"negative length", "got negative length"}

\* How many type bytes precede the length the last operation reads; -1 when
\* the operation reads no length first.
TypeBytes ==
    CASE op \in {"ReadBinary", "ReadString"} -> 0
      [] op \in {"ReadListBegin", "ReadSetBegin"} -> 1
      [] op = "ReadMapBegin" -> 2
      [] op = "Skip" /\ arg = TBinary -> 0
      [] op = "Skip" /\ arg \in {TList, TSet} -> 1
      [] op = "Skip" /\ arg = TMap -> 2
      [] OTHER -> 0 - 1

ReadsNegativeLength ==
    /\ TypeBytes >= 0
    /\ Delivered(TypeBytes, 4)
    /\ LengthAt(TypeBytes) < 0

NegativeLengthRejected ==
    ReadsNegativeLength =>
        /\ err \in InvalidLength
        /\ pos = start + TypeBytes + 4
        /\ val = ZeroVal

NegativeLengthRejectedWitness ==
    /\ ReadsNegativeLength
    /\ op = "Skip" /\ arg = TMap
    /\ err = "got negative length"
    /\ pos < Len(data)

----------------------------------------------------------------------------
(* C4: an operation that expects k more bytes returns the unexpected-EOF   *)
(* error when the source ends before them or delivers fewer than k: never  *)
(* success, never plain EOF, also when nothing at all is left.             *)

\* The last operation read a length field, not negative, after its type bytes.
ReadsLength == TypeBytes >= 0 /\ Delivered(TypeBytes, 4) /\ LengthAt(TypeBytes) >= 0

\* The bytes a container's elements take when each is w wide, or more than
\* the stream holds.
Payload(n, w) == IF n > Len(data) THEN Len(data) + 1 ELSE n * w

\* The source does not deliver the bytes the last operation expects.
Shortfall ==
    CASE op \in {"ReadBool", "ReadInt8", "ReadStructEnd"} -> ~Delivered(0, 1)
      [] op = "ReadInt16" -> ~Delivered(0, 2)
      [] op = "ReadInt32" -> ~Delivered(0, 4)
      [] op \in {"ReadInt64", "ReadDouble"} -> ~Delivered(0, 8)
      [] op = "ReadFieldBegin" -> ~Delivered(0, 1) \/ ~Delivered(1, 2)
      [] op \in {"ReadListBegin", "ReadSetBegin"} -> ~Delivered(0, 1) \/ ~Delivered(1, 4)
      [] op = "ReadMapBegin" ->
            ~Delivered(0, 1) \/ ~Delivered(1, 1) \/ ~Delivered(2, 4)
      [] op \in {"ReadBinary", "ReadString"} ->
            \/ ~Delivered(0, 4)
            \/ /\ ReadsLength
               /\ IF LengthAt(0) > bytesAllocThreshold
                  THEN start + 4 + LengthAt(0) > Len(data)
                  ELSE ~Delivered(4, LengthAt(0))
      [] op = "Skip" /\ fixedWidth(arg) > 0 -> ~Present(0, fixedWidth(arg))
      [] op = "Skip" /\ arg = TBinary ->
            \/ ~Delivered(0, 4)
            \/ ReadsLength /\ start + 4 + LengthAt(0) > Len(data)
      [] op = "Skip" /\ arg = TStruct -> ~Present(0, 1)
      [] op = "Skip" /\ arg \in {TList, TSet} ->
            \/ ~Delivered(0, 1) \/ ~Delivered(1, 4)
            \/ /\ ReadsLength /\ fixedWidth(Int8(At(0))) > 0
               /\ start + 5 + Payload(LengthAt(1), fixedWidth(Int8(At(0)))) > Len(data)
      [] op = "Skip" /\ arg = TMap ->
            \/ ~Delivered(0, 1) \/ ~Delivered(1, 1) \/ ~Delivered(2, 4)
            \/ /\ ReadsLength /\ fixedWidth(Int8(At(0))) > 0 /\ fixedWidth(Int8(At(1))) > 0
               /\ start + 6 + Payload(LengthAt(2), fixedWidth(Int8(At(0)))
                                                    + fixedWidth(Int8(At(1)))) > Len(data)
      [] OTHER -> FALSE

UnexpectedEOF ==
    /\ err # "EOF"
    /\ Shortfall => err = "ErrUnexpectedEOF"
    /\ err = "nil" => pos <= Len(data)

\* The streaming copy of a long binary payload meets the end of the source.
UnexpectedEOFWitness ==
    /\ op = "ReadBinary" /\ ReadsLength
    /\ LengthAt(0) > bytesAllocThreshold
    /\ start + 4 < Len(data) /\ start + 4 + LengthAt(0) > Len(data)
    /\ err = "ErrUnexpectedEOF"

----------------------------------------------------------------------------
(* C9: a read operation that returns an error returns the zero value with  *)
(* it: no integer assembled from, and no byte slice holding, bytes that    *)
(* were read before the error.                                             *)

ReadOps == {"ReadBool", "ReadInt8", "ReadInt16", "ReadInt32", "ReadInt64", "ReadDouble",
            "ReadBinary", "ReadString", "ReadFieldBegin", "ReadListBegin",
            "ReadSetBegin", "ReadMapBegin"}

NoData(v) ==
    /\ v.bool = FALSE /\ v.int = 0
    /\ v.type = 0 /\ v.keyType = 0 /\ v.id = 0 /\ v.length = 0
    /\ \A i \in 1..Len(v.bytes) : v.bytes[i] = 0

PartialValuesDiscarded == (op \in ReadOps /\ err # "nil") => NoData(val)

----------------------------------------------------------------------------
(* C2: for a wire value v of type t, Skip(t) on a stream that begins with  *)
(* the encoding of v returns no error and advances by exactly              *)
(* len(Encode(v)) bytes, leaving what follows unread.                      *)

\* The stream holds the whole encoding of `value`, and Skip was called for
\* its type at the start of it.
SkippedValue ==
    /\ op = "Skip" /\ arg = value.t /\ start = 0
    /\ Len(data) >= Len(Encode(value))
    /\ Take(data, Len(Encode(value))) = Encode(value)

\* As claimed: for every source.
SkipConsistency ==
    SkippedValue => (err = "nil" /\ pos = Len(Encode(value)))

\* As amended: for a source that hands over every length and size field
\* whole, as one that has no segment boundary does.
SkipConsistencyWholeReads ==
    (SkippedValue /\ split = 0) => (err = "nil" /\ pos = Len(Encode(value)))

\* A struct of maps from binary keys to binaries, followed by other bytes.
SkipConsistencyWitness ==
    /\ SkippedValue /\ split = 0
    /\ value.t = TStruct /\ Len(value.items) = MaxElems
    /\ value.items[1].t = TMap /\ value.items[1].kt = TBinary
    /\ value.items[1].et = TBinary /\ Len(value.items[1].items) > 0
    /\ err = "nil" /\ pos = Len(Encode(value)) /\ pos < Len(data)

----------------------------------------------------------------------------
(* C10: Skip of a LIST or SET of fixed-width elements, or of a MAP whose   *)
(* key and value are both fixed-width, discards length x width bytes in    *)
(* one step and ends where, and with the error that, skipping the          *)
(* elements one at a time ends; a MAP with one fixed-width side is skipped *)
(* pair by pair; skipping a MAP<I32,I32> of length 3 takes 30 bytes.       *)

\* skipList and skipMap without their bulk path: the header, then the loop.
skipListOneByOne(d, sp, sr) ==
    With(readTypeSizeHeader(d, sp, sr), LAMBDA h :
        IF h.err # "nil" THEN Result(h.pos, h.buf, ZeroVal, h.err)
        ELSE skipListLoop(d, sp, Reader(h.pos, h.buf), h.val.type, 0, h.val.length))

skipMapOneByOne(d, sp, sr) ==
    With(ReadMapBegin(d, sp, sr), LAMBDA h :
        IF h.err # "nil" THEN Result(h.pos, h.buf, ZeroVal, h.err)
        ELSE skipMapLoop(d, sp, Reader(h.pos, h.buf), h.val.keyType, h.val.type,
                         0, h.val.length))

Outcome(r) == <<r.pos, r.err>>

\* The bulk path applies: a header with a non-negative length and
\* fixed-width element types.
BulkList ==
    /\ op = "Skip" /\ arg \in {TList, TSet}
    /\ ReadsLength /\ fixedWidth(Int8(At(0))) > 0
BulkMap ==
    /\ op = "Skip" /\ arg = TMap
    /\ ReadsLength /\ fixedWidth(Int8(At(0))) > 0 /\ fixedWidth(Int8(At(1))) > 0

BulkSkipEquivalence ==
    /\ (op = "Skip" /\ arg \in {TList, TSet}) =>
          /\ <<pos, err>> = Outcome(skipListOneByOne(data, split, Reader(start, Zeros(8))))
          /\ (BulkList /\ err = "nil") =>
                pos = start + 5 + LengthAt(1) * fixedWidth(Int8(At(0)))
    /\ (op = "Skip" /\ arg = TMap) =>
          /\ <<pos, err>> = Outcome(skipMapOneByOne(data, split, Reader(start, Zeros(8))))
          /\ (BulkMap /\ err = "nil") =>
                pos = start + 6 + LengthAt(2) * (fixedWidth(Int8(At(0)))
                                                 + fixedWidth(Int8(At(1))))
    /\ (SkippedValue /\ value = MapI32x3 /\ split = 0) => (err = "nil" /\ pos = 30)

\* The MAP<I32,I32> of length 3, with bytes after it.
BulkSkipEquivalenceWitness ==
    /\ SkippedValue /\ value = MapI32x3 /\ BulkMap
    /\ err = "nil" /\ pos = 30 /\ pos < Len(data)

----------------------------------------------------------------------------
(* C7: compiling an enum gives each item, in declaration order, its        *)
(* explicit value if it has one, else the value of the item before it plus *)
(* one, the first item defaulting to 0; the items keep their order and     *)
(* names, and the spec's TypeCode is I32.                                  *)

Compiled == enumOut.done /\ enumOut.ok

ExpectedValue(i) ==
    IF enumSrc.items[i].explicit THEN enumSrc.items[i].value
    ELSE IF i = 1 THEN 0
    ELSE enumOut.items[i - 1].value + 1

ItemValuesOf(out) == [i \in 1..Len(out.items) |-> out.items[i].value]

EnumValueDefaulting ==
    /\ Compiled =>
          /\ enumOut.name = enumSrc.name
          /\ enumOut.typeCode = TI32
          /\ Len(enumOut.items) = Len(enumSrc.items)
          /\ \A i \in 1..Len(enumSrc.items) :
                /\ enumOut.items[i].name = enumSrc.items[i].name
                /\ enumOut.items[i].value = ExpectedValue(i)
    /\ (enumOut.done /\ enumSrc = RoleSrc) => (Compiled /\ ItemValuesOf(enumOut) = <<0, 1, 2, 3>>)
    /\ (enumOut.done /\ enumSrc = CommentStatusSrc) =>
          (Compiled /\ ItemValuesOf(enumOut) = <<12345, 54321>>)
    /\ (enumOut.done /\ enumSrc = MixedSrc) =>
          (Compiled /\ ItemValuesOf(enumOut) = <<0, 1, 10, 11, 12>>)
    /\ (enumOut.done /\ enumSrc = SameValuesSrc) =>
          (Compiled /\ ItemValuesOf(enumOut) = <<0, 0, 1, 0, 1>>)
    /\ (enumOut.done /\ enumSrc = SpecExampleSrc) =>
          (Compiled /\ ItemValuesOf(enumOut) = <<0, 5, 6, 7>>)

EnumValueDefaultingWitness ==
    /\ Compiled /\ enumSrc = MixedSrc
    /\ ItemValuesOf(enumOut) = <<0, 1, 10, 11, 12>>

----------------------------------------------------------------------------
(* C8: compiling an enum fails, naming the item ("Foo.A": the name has     *)
(* already been used), exactly when two of its items have the same name;   *)
(* two items with the same value never make it fail.                       *)

DuplicateNames(src) ==
    \E i, j \in 1..Len(src.items) : i < j /\ src.items[i].name = src.items[j].name

\* The first item whose name an earlier item has.
FirstDuplicate(src) ==
    LET dups == {j \in 1..Len(src.items) :
                    \E i \in 1..(j - 1) : src.items[i].name = src.items[j].name}
    IN src.items[CHOOSE j \in dups : \A k \in dups : j <= k].name

EnumItemUniqueness ==
    enumOut.done =>
        /\ ~enumOut.ok <=> DuplicateNames(enumSrc)
        /\ ~enumOut.ok =>
              /\ enumOut.name = enumSrc.name
              /\ enumOut.failed = FirstDuplicate(enumSrc)
        /\ (enumSrc = DuplicateSrc) =>
              (~enumOut.ok /\ enumOut.name = "Foo" /\ enumOut.failed = "A")

\* A failure on a repeated name whose items all have different values.
EnumItemUniquenessWitness ==
    /\ enumOut.done /\ ~enumOut.ok /\ enumSrc = DuplicateSrc /\ enumOut.failed = "A"

----------------------------------------------------------------------------
(* C11: Skip(t) returns on every finite stream, well-formed or hostile,    *)
(* with the outcome Skip has as a function of the stream; every call of    *)
(* Skip consumes at least one byte or returns an error, and by the time a  *)
(* round of the struct, list/set or map loop is over the stream has moved  *)
(* on since the round began.                                               *)

\* Skip has returned, with success or an error.
Returned == err # "nil" \/ stack = <<>>

\* ... and with the position, scratch buffer and error of Skip(arg).
ReturnedAsSkip ==
    /\ Returned
    /\ With(Skip(data, split, Reader(0, Zeros(8)), arg), LAMBDA r :
          pos = r.pos /\ buffer = r.buf /\ err = r.err)

\* A call of Skip that returns without an error has consumed input, as has
\* one that enters a loop.
CallConsumes == In("skip", "call") => (pos' > pos \/ err' # "nil")

\* Control is back in a loop after the Skip calls of a round.
RoundOver ==
    /\ Running
    /\ \/ Top.kind = "struct" /\ Top.pc = "next"
       \/ Top.kind = "list" /\ Top.i > 0
       \/ Top.kind = "map" /\ (Top.pc = "value" \/ Top.i > 0)

RoundConsumes == RoundOver => pos > Top.at

\* No loop counter gets past the number of bytes consumed.
CountedByInput ==
    \A k \in 1..Len(stack) : stack[k].kind \in {"list", "map"} => stack[k].i <= pos

SkipTerminates ==
    /\ [](RoundConsumes /\ CountedByInput)
    /\ [][CallConsumes]_vars
    /\ <>ReturnedAsSkip

\* A list that announces 2^31 - 1 binaries: Skip goes twice round the loop
\* and returns the error of the stream's end.
SkipTerminatesWitness ==
    /\ op = "Skip" /\ arg = TList /\ Returned
    /\ err = "ErrUnexpectedEOF" /\ pos = Len(data)
    /\ Len(stack) > 1
    /\ stack[1].kind = "list" /\ stack[1].t = TBinary
    /\ stack[1].size = 2147483647 /\ stack[1].i >= 2

====
